---- MODULE Spec2Model ----
(***************************************************************************)
(* tt-focus: the event / lap state machine of the command-line time        *)
(* tracker (src/tt/model.py, src/tt/util.py, src/tt/main.py).              *)
(*                                                                         *)
(* util.py uses members of Event (split, stop, started) and functions of   *)
(* the db module that are not part of the source tree; split, stop and the *)
(* db functions are modelled from the design document (sections 4.1, 4.2   *)
(* and 6) and say so where they are defined.  The pause and resume         *)
(* commands, which util.py does not have, are built the way event_split    *)
(* is.  Event.started is only read to print (util.py:116, 196-198); the    *)
(* printing (show_status, show_running_status, the messages event_start    *)
(* returns) changes no state and is left out.  Time never goes back.       *)
(***************************************************************************)
EXTENDS Integers, Sequences, FiniteSets, TLC

VARIABLES
    clock,      \* the time source: what model.now() returns
    cfg,        \* Config loaded at startup (main.py:35)
    tasks,      \* the task table of the database, in insertion order
    events,     \* the event table of the database, in insertion order
    event,      \* the in-memory Event of the last command (NoEvent if none)
    result,     \* outcome of the last command
    lastOp,     \* name of the last command
    hist,       \* commands that succeeded on the current event: <<op, time>>
    arg,        \* the NAME argument of the last add / start command
    procs       \* two start commands run as separate processes (RaceSpec)

vars == <<clock, cfg, tasks, events, event, result, lastOp, hist, arg, procs>>

----------------------------------------------------------------------------
(* Bounds *)

Epoch == 1000                 \* the timestamp the model's clock starts at
MaxEvents == 2                \* rows of the event table
MaxTasks == 1                 \* rows of the task table
MaxOps == 4                   \* successful commands on one event
Offsets == {0, 120, 150, 300, 400}   \* seconds after Epoch the clock visits
SecondsPerMinute == 60

\* model.py:53-54 and a second configuration with small thresholds
Configs ==
    { [split_min |-> 5, pause_min |-> 5, pause_max |-> 60],
      [split_min |-> 1, pause_min |-> 1, pause_max |-> 2] }

\* names are sequences of characters
TaskNames == { <<"c", "-", "1">>, <<"a", " ">> }
RandIds == {46656, 1679615}   \* values randrange(n_min, n_max + 1) may return

\* the names task creation is tried on: every sequence of at most MaxNameLen
\* of these characters
MaxNameLen == 2
NameChars == {"a", "Z", "7", "-", "_", " ", "!"}
Names == UNION {[1..n -> NameChars] : n \in 0..MaxNameLen}

\* the two processes of RaceSpec; a process that has not been started
Procs == {1, 2}
IdleProc == [pc |-> "idle", name |-> <<>>, task_id |-> <<>>, result |-> "none", late |-> FALSE]

----------------------------------------------------------------------------
(* model.py *)

NoEvent == [id |-> <<>>, task_id |-> <<>>, status |-> "None", laps |-> <<>>, work |-> 0]

Ok(v) == [ok |-> TRUE, val |-> v, err |-> "OK"]
Err(e) == [ok |-> FALSE, val |-> NoEvent, err |-> e]

default_cfg == [split_min |-> 5, pause_min |-> 5, pause_max |-> 60]

\* model.py:150-169; a digit is its index in "0123456789abcdefghijklmnopqrstuvwxyz"
RECURSIVE base_digits(_, _)
base_digits(num, base) ==
    IF num = 0 THEN <<>>
    ELSE Append(base_digits(num \div base, base), num % base)

base_repr(number, base) ==
    IF number = 0 THEN <<0>> ELSE base_digits(number, base)

\* model.py:27-29
date_id(now) == base_repr(now, 36)

\* model.py:32-37
rand_id(n_rand) == base_repr(n_rand, 36)

\* model.py:19
NameAllowed ==
    {"_", "-", "0", "1", "2", "3", "4", "5", "6", "7", "8", "9",
     "a", "b", "c", "d", "e", "f", "g", "h", "i", "j", "k", "l", "m",
     "n", "o", "p", "q", "r", "s", "t", "u", "v", "w", "x", "y", "z",
     "A", "B", "C", "D", "E", "F", "G", "H", "I", "J", "K", "L", "M",
     "N", "O", "P", "Q", "R", "S", "T", "U", "V", "W", "X", "Y", "Z"}

\* model.py:85-93: OK when the forbidden pattern finds nothing
check_name(name) == \A i \in 1..Len(name) : name[i] \in NameAllowed

\* model.py:110-119
new_task(name, alias, n_rand) ==
    IF check_name(name)
    THEN [ok |-> TRUE, val |-> [id |-> rand_id(n_rand), name |-> name, alias |-> alias]]
    ELSE [ok |-> FALSE, val |-> [id |-> <<>>, name |-> <<>>, alias |-> <<>>]]

\* model.py:57-58: msgpack of a tuple of laps, as the sequence of msgpack
\* objects it is made of (array headers, strings, integers)
pack_lap(lap) ==
    << [t |-> "array", v |-> 4], [t |-> "str", v |-> lap[1]],
       [t |-> "int", v |-> lap[2]], [t |-> "int", v |-> lap[3]],
       [t |-> "int", v |-> lap[4]] >>

RECURSIVE pack_items(_)
pack_items(laps) ==
    IF laps = <<>> THEN <<>>
    ELSE pack_lap(Head(laps)) \o pack_items(Tail(laps))

pack(laps) == <<[t |-> "array", v |-> Len(laps)]>> \o pack_items(laps)

\* model.py:61-62
RECURSIVE unpack_items(_, _)
unpack_items(data, n) ==
    IF n = 0 THEN <<>>
    ELSE << <<data[2].v, data[3].v, data[4].v, data[5].v>> >>
            \o unpack_items(SubSeq(data, 6, Len(data)), n - 1)

unpack(data) == unpack_items(Tail(data), data[1].v)

\* Event.__init__ that adds the fresh lap to the stored ledger as well
Event_appends_lap(d, now) ==
    [ id      |-> IF "id" \in DOMAIN d THEN d.id ELSE date_id(now),
      task_id |-> d.task_id,
      status  |-> IF "status" \in DOMAIN d THEN d.status ELSE "Running",
      laps    |-> IF "laps" \in DOMAIN d /\ d.laps # <<>>
                  THEN Append(unpack(d.laps), <<"Split", now, 0, 0>>)
                  ELSE << <<"Split", now, 0, 0>> >>,
      work    |-> IF "work" \in DOMAIN d THEN d.work ELSE 0 ]

\* Event.__init__ that tests the unpacked ledger, not the packed bytes, for
\* emptiness
Event_empty_ledger_is_none(d, now) ==
    [ id      |-> IF "id" \in DOMAIN d THEN d.id ELSE date_id(now),
      task_id |-> d.task_id,
      status  |-> IF "status" \in DOMAIN d THEN d.status ELSE "Running",
      laps    |-> IF "laps" \in DOMAIN d /\ unpack(d.laps) # <<>>
                  THEN unpack(d.laps)
                  ELSE << <<"Split", now, 0, 0>> >>,
      work    |-> IF "work" \in DOMAIN d THEN d.work ELSE 0 ]

\* Event.__init__ that leaves the stored status aside
Event_status_default(d, now) ==
    [ id      |-> IF "id" \in DOMAIN d THEN d.id ELSE date_id(now),
      task_id |-> d.task_id,
      status  |-> "Running",
      laps    |-> IF "laps" \in DOMAIN d /\ d.laps # <<>>
                  THEN unpack(d.laps)
                  ELSE << <<"Split", now, 0, 0>> >>,
      work    |-> IF "work" \in DOMAIN d THEN d.work ELSE 0 ]

\* model.py:130-137; d is the dict, now is what now() returns
Event(d, now) ==
    [ id      |-> IF "id" \in DOMAIN d THEN d.id ELSE date_id(now),
      task_id |-> d.task_id,
      status  |-> IF "status" \in DOMAIN d THEN d.status ELSE "Running",
      laps    |-> IF "laps" \in DOMAIN d /\ d.laps # <<>>
                  THEN unpack(d.laps)
                  ELSE << <<"Split", now, 0, 0>> >>,
      work    |-> IF "work" \in DOMAIN d THEN d.work ELSE 0 ]

\* model.py:139-146
to_dict(e) ==
    [ id |-> e.id, task_id |-> e.task_id, status |-> e.status,
      laps |-> pack(e.laps), work |-> 0 ]

----------------------------------------------------------------------------
(* Lap Ledger and Event operations.  Event.split and Event.stop are called *)
(* by util.py:154 and util.py:166 but are not defined in model.py; they    *)
(* and pause / resume follow sections 4.1 and 4.2 of the design document.  *)

\* 4.1 open(kind, at)
lap_open(laps, kind, at) == Append(laps, <<kind, at, 0, 0>>)

\* 4.1 close(at): end = at, length = at - start
lap_close(laps, at) ==
    [laps EXCEPT ![Len(laps)] = <<@[1], @[2], at, at - @[2]>>]

\* total_work that counts the closed Pause laps as well
RECURSIVE total_work_all_laps(_)
total_work_all_laps(laps) ==
    IF laps = <<>> THEN 0
    ELSE (IF Head(laps)[3] # 0 THEN Head(laps)[4] ELSE 0)
         + total_work_all_laps(Tail(laps))

\* 4.1 total_work(): sum of length over the closed laps whose kind is Split
RECURSIVE total_work(_)
total_work(laps) ==
    IF laps = <<>> THEN 0
    ELSE (IF Head(laps)[1] = "Split" /\ Head(laps)[3] # 0 THEN Head(laps)[4] ELSE 0)
         + total_work(Tail(laps))

\* discard rules where a pause of exactly pause_min is dropped too
lap_discarded_le(lap, c) ==
    IF lap[1] = "Split"
    THEN lap[4] < c.split_min * SecondsPerMinute
    ELSE \/ lap[4] <= c.pause_min * SecondsPerMinute
         \/ lap[4] > c.pause_max * SecondsPerMinute

\* 4.2 the discard rules: split_min for Split, pause_min / pause_max for Pause
lap_discarded(lap, c) ==
    IF lap[1] = "Split"
    THEN lap[4] < c.split_min * SecondsPerMinute
    ELSE \/ lap[4] < c.pause_min * SecondsPerMinute
         \/ lap[4] > c.pause_max * SecondsPerMinute

\* close the open lap at `at` and drop it from the ledger when its rule says so
close_last_lap(laps, at, c) ==
    LET closed == lap_close(laps, at)
    IN  IF lap_discarded(closed[Len(closed)], c)
        THEN SubSeq(closed, 1, Len(closed) - 1)
        ELSE closed

\* 4.2 split(): valid only in Running
Event_split(e, c, now) ==
    IF e.status # "Running"
    THEN [e |-> e, err |-> "InvalidStateError"]
    ELSE [e |-> [e EXCEPT !.laps = lap_open(close_last_lap(e.laps, now, c), "Split", now)],
          err |-> "OK"]

\* 4.2 pause(): valid only in Running
Event_pause(e, c, now) ==
    IF e.status # "Running"
    THEN [e |-> e, err |-> "InvalidStateError"]
    ELSE [e |-> [e EXCEPT !.laps = lap_open(close_last_lap(e.laps, now, c), "Pause", now),
                          !.status = "Pausing"],
          err |-> "OK"]

\* 4.2 resume(): valid only in Pausing
Event_resume(e, c, now) ==
    IF e.status # "Pausing"
    THEN [e |-> e, err |-> "InvalidStateError"]
    ELSE [e |-> [e EXCEPT !.laps = lap_open(close_last_lap(e.laps, now, c), "Split", now),
                          !.status = "Running"],
          err |-> "OK"]

\* 4.2 stop(): valid in Running or Pausing
Event_stop(e, c, now) ==
    IF e.status \notin {"Running", "Pausing"}
    THEN [e |-> e, err |-> "InvalidStateError"]
    ELSE LET laps == close_last_lap(e.laps, now, c)
         IN  [e |-> [e EXCEPT !.laps = laps, !.work = total_work(laps),
                              !.status = "Stopped"],
              err |-> "OK"]

----------------------------------------------------------------------------
(* The db module (section 6, Persistence Gateway); each call is atomic.    *)

\* get_last_event(): the most recently created event, an error if none
db_get_last_event(evs, now) ==
    IF evs = <<>> THEN Err("NotFoundError")
    ELSE Ok(Event(evs[Len(evs)], now))

\* insert_event(Event); records are keyed by their ids (section 2), so an id
\* that is already stored is not stored a second time
db_insert_event(evs, e) ==
    IF \E i \in DOMAIN evs : evs[i].id = e.id THEN evs
    ELSE Append(evs, to_dict(e))

\* update_laps(Event): persists the serialized lap ledger and the status
db_update_laps(evs, e) ==
    [i \in DOMAIN evs |->
        IF evs[i].id = e.id
        THEN [evs[i] EXCEPT !.laps = pack(e.laps), !.status = e.status]
        ELSE evs[i]]

\* delete_event(id)
db_delete_event(evs, id) == SelectSeq(evs, LAMBDA row : row.id # id)

\* get_task_by_name(name)
db_get_task_by_name(tks, name) ==
    IF \E i \in DOMAIN tks : tks[i].name = name
    THEN [ok |-> TRUE, val |-> tks[CHOOSE i \in DOMAIN tks : tks[i].name = name]]
    ELSE [ok |-> FALSE, val |-> [id |-> <<>>, name |-> <<>>, alias |-> <<>>]]

\* insert_task(Task): an error when the id or the name is already taken
db_insert_task(tks, task) ==
    IF \E i \in DOMAIN tks : tks[i].name = task.name \/ tks[i].id = task.id
    THEN [ok |-> FALSE, val |-> tks]
    ELSE [ok |-> TRUE, val |-> Append(tks, task)]

----------------------------------------------------------------------------
(* util.py *)

\* check_last_event_stopped that never reports a conflict
check_last_event_stopped_always_ok(evs, now) == "OK"

\* util.py:72-86
check_last_event_stopped(evs, now) ==
    LET r == db_get_last_event(evs, now)
    IN  IF ~r.ok THEN "OK"
        ELSE IF r.val.status # "Stopped" THEN "ConflictError"
        ELSE "OK"

\* get_last_event without the test for a Stopped event
get_last_event_any_status(evs, now) == db_get_last_event(evs, now)

\* util.py:130-144
get_last_event(evs, now) ==
    LET r == db_get_last_event(evs, now)
    IN  IF ~r.ok THEN r
        ELSE IF r.val.status = "Stopped" THEN Err("InvalidStateError")
        ELSE Ok(r.val)

\* event_start whose guard treats only a Running event as a conflict
event_start_running_only(evs, tks, name, now) ==
    LET last == db_get_last_event(evs, now)
    IN  IF last.ok /\ last.val.status = "Running"
        THEN [events |-> evs, event |-> NoEvent, result |-> "ConflictError"]
        ELSE LET r == db_get_task_by_name(tks, name)
             IN  IF ~r.ok
                 THEN [events |-> evs, event |-> NoEvent, result |-> "NotFoundError"]
                 ELSE LET e == Event([task_id |-> r.val.id], now)
                      IN  [events |-> db_insert_event(evs, e), event |-> e, result |-> "OK"]

\* event_start that goes on to the insert when the task is not found
event_start_inserts_unknown(evs, tks, name, now) ==
    IF check_last_event_stopped(evs, now) # "OK"
    THEN [events |-> evs, event |-> NoEvent, result |-> "ConflictError"]
    ELSE LET r == db_get_task_by_name(tks, name)
             e == Event([task_id |-> r.val.id], now)
         IN  [events |-> db_insert_event(evs, e), event |-> e,
              result |-> IF r.ok THEN "OK" ELSE "NotFoundError"]

\* event_start that gives the new Event the task's name for its task_id
event_start_task_name(evs, tks, name, now) ==
    IF check_last_event_stopped(evs, now) # "OK"
    THEN [events |-> evs, event |-> NoEvent, result |-> "ConflictError"]
    ELSE LET r == db_get_task_by_name(tks, name)
         IN  IF ~r.ok
             THEN [events |-> evs, event |-> NoEvent, result |-> "NotFoundError"]
             ELSE LET e == Event([task_id |-> r.val.name], now)
                  IN  [events |-> db_insert_event(evs, e), event |-> e, result |-> "OK"]

\* util.py:101-127
event_start(evs, tks, name, now) ==
    IF check_last_event_stopped(evs, now) # "OK"
    THEN [events |-> evs, event |-> NoEvent, result |-> "ConflictError"]
    ELSE LET r == db_get_task_by_name(tks, name)
         IN  IF ~r.ok
             THEN [events |-> evs, event |-> NoEvent, result |-> "NotFoundError"]
             ELSE LET e == Event([task_id |-> r.val.id], now)
                  IN  [events |-> db_insert_event(evs, e), event |-> e, result |-> "OK"]

\* event_split that forgets db.update_laps
event_split_no_save(evs, c, now) ==
    LET r == get_last_event(evs, now)
    IN  IF ~r.ok
        THEN [events |-> evs, event |-> NoEvent, result |-> r.err]
        ELSE LET s == Event_split(r.val, c, now)
             IN  [events |-> evs, event |-> s.e, result |-> s.err]

\* util.py:147-156
event_split(evs, c, now) ==
    LET r == get_last_event(evs, now)
    IN  IF ~r.ok
        THEN [events |-> evs, event |-> NoEvent, result |-> r.err]
        ELSE LET s == Event_split(r.val, c, now)
             IN  [events |-> db_update_laps(evs, s.e), event |-> s.e, result |-> s.err]

\* the pause command, built as event_split is (section 4.2)
event_pause(evs, c, now) ==
    LET r == get_last_event(evs, now)
    IN  IF ~r.ok
        THEN [events |-> evs, event |-> NoEvent, result |-> r.err]
        ELSE LET s == Event_pause(r.val, c, now)
             IN  [events |-> db_update_laps(evs, s.e), event |-> s.e, result |-> s.err]

\* the resume command, built as event_split is (section 4.2)
event_resume(evs, c, now) ==
    LET r == get_last_event(evs, now)
    IN  IF ~r.ok
        THEN [events |-> evs, event |-> NoEvent, result |-> r.err]
        ELSE LET s == Event_resume(r.val, c, now)
             IN  [events |-> db_update_laps(evs, s.e), event |-> s.e, result |-> s.err]

\* event_stop that saves and tests the event without calling event.stop
event_stop_no_stop(evs, c, now) ==
    LET r == get_last_event(evs, now)
    IN  IF ~r.ok
        THEN [events |-> evs, event |-> NoEvent, result |-> r.err]
        ELSE LET saved == db_update_laps(evs, r.val)
             IN  IF r.val.work <= c.split_min
                 THEN [events |-> db_delete_event(saved, r.val.id), event |-> r.val,
                       result |-> "OK"]
                 ELSE [events |-> saved, event |-> r.val, result |-> "OK"]

\* event_stop that never deletes the event
event_stop_no_delete(evs, c, now) ==
    LET r == get_last_event(evs, now)
    IN  IF ~r.ok
        THEN [events |-> evs, event |-> NoEvent, result |-> r.err]
        ELSE LET s == Event_stop(r.val, c, now)
             IN  [events |-> db_update_laps(evs, s.e), event |-> s.e, result |-> s.err]

\* util.py:159-180
event_stop(evs, c, now) ==
    LET r == get_last_event(evs, now)
    IN  IF ~r.ok
        THEN [events |-> evs, event |-> NoEvent, result |-> r.err]
        ELSE LET s == Event_stop(r.val, c, now)
                 saved == db_update_laps(evs, s.e)
             IN  IF s.e.work <= c.split_min
                 THEN [events |-> db_delete_event(saved, s.e.id), event |-> s.e,
                       result |-> s.err]
                 ELSE [events |-> saved, event |-> s.e, result |-> s.err]

----------------------------------------------------------------------------
(* The state machine: one action per command *)

Init ==
    /\ clock = Epoch
    /\ cfg \in Configs
    /\ tasks = <<>>
    /\ events = <<>>
    /\ event = NoEvent
    /\ result = "OK"
    /\ lastOp = "none"
    /\ hist = <<>>
    /\ arg = <<>>
    /\ procs = [p \in Procs |-> IdleProc]

\* the time source moves on
Tick ==
    /\ \E d \in Offsets : Epoch + d > clock /\ clock' = Epoch + d
    /\ UNCHANGED <<cfg, tasks, events, event, result, lastOp, hist, arg, procs>>

\* main.py:213-226, for one NAME and one outcome of rand_id
add_task(name, n_rand) ==
    LET t == new_task(name, <<>>, n_rand)
        r == IF t.ok THEN db_insert_task(tasks, t.val) ELSE [ok |-> FALSE, val |-> tasks]
    IN  /\ Len(tasks) < MaxTasks \/ ~r.ok
        /\ tasks' = r.val
        /\ result' = (IF ~t.ok THEN "InvalidNameError"
                      ELSE IF ~r.ok THEN "ConflictError" ELSE "OK")
        /\ lastOp' = "add"
        /\ arg' = name
        /\ event' = NoEvent
        /\ UNCHANGED <<clock, cfg, events, hist, procs>>

\* main.py:213-226
add == \E name \in TaskNames, n_rand \in RandIds : add_task(name, n_rand)

\* a command may act on the current event while it has fewer than MaxOps
\* successful commands behind it
CanAct ==
    IF events = <<>> THEN TRUE
    ELSE Len(hist) < MaxOps \/ events[Len(events)].status = "Stopped"

Record(op, r) ==
    /\ events' = r.events
    /\ event' = r.event
    /\ result' = r.result
    /\ lastOp' = op
    /\ UNCHANGED <<clock, cfg, tasks, procs>>

\* main.py:253-259
start ==
    \E name \in TaskNames :
        LET r == event_start(events, tasks, name, clock)
        IN  /\ r.result # "OK" \/ Len(events) < MaxEvents
            /\ Record("start", r)
            /\ arg' = name
            /\ hist' = IF r.result = "OK" THEN << <<"start", clock>> >> ELSE hist

split ==
    LET r == event_split(events, cfg, clock)
    IN  /\ CanAct
        /\ Record("split", r)
        /\ arg' = <<>>
        /\ hist' = IF r.result = "OK" THEN Append(hist, <<"split", clock>>) ELSE hist

pause ==
    LET r == event_pause(events, cfg, clock)
    IN  /\ CanAct
        /\ Record("pause", r)
        /\ arg' = <<>>
        /\ hist' = IF r.result = "OK" THEN Append(hist, <<"pause", clock>>) ELSE hist

resume ==
    LET r == event_resume(events, cfg, clock)
    IN  /\ CanAct
        /\ Record("resume", r)
        /\ arg' = <<>>
        /\ hist' = IF r.result = "OK" THEN Append(hist, <<"resume", clock>>) ELSE hist

stop ==
    LET r == event_stop(events, cfg, clock)
    IN  /\ CanAct
        /\ Record("stop", r)
        /\ arg' = <<>>
        /\ hist' = IF r.result = "OK" THEN Append(hist, <<"stop", clock>>) ELSE hist

Next == Tick \/ add \/ start \/ split \/ pause \/ resume \/ stop

Spec == Init /\ [][Next]_vars

----------------------------------------------------------------------------
(* Task creation on its own: tt add NAME for every name of Names *)

add_name == \E name \in Names, n_rand \in RandIds : add_task(name, n_rand)

NameNext == add_name

NameSpec == Init /\ [][NameNext]_vars

----------------------------------------------------------------------------
(* Two start commands in two processes.  Each runs event_start as its      *)
(* storage calls, one step per call: db.get_last_event (util.py:74),       *)
(* db.get_task_by_name (util.py:106), db.insert_event (util.py:115).       *)

RaceTasks == db_insert_task(<<>>, new_task(<<"c", "-", "1">>, <<>>, 46656).val).val

\* storage with one event, started at Epoch and stopped 300 s later
RaceStopped(c) ==
    event_stop(event_start(<<>>, RaceTasks, <<"c", "-", "1">>, Epoch).events,
               c, Epoch + 300).events

RaceInit ==
    /\ cfg \in Configs
    /\ tasks = RaceTasks
    /\ \/ events = <<>> /\ clock = Epoch
       \/ events = RaceStopped(cfg) /\ clock = Epoch + 300
    /\ event = NoEvent
    /\ result = "OK"
    /\ lastOp = "none"
    /\ hist = <<>>
    /\ arg = <<>>
    /\ procs \in [Procs -> {[IdleProc EXCEPT !.pc = "check", !.name = n] : n \in TaskNames}]

\* util.py:102-104 and 72-86: the read of the last event
p_check(p) ==
    /\ procs[p].pc = "check"
    /\ LET c == check_last_event_stopped(events, clock)
           late == \E q \in Procs \ {p} : procs[q].pc = "done" /\ procs[q].result = "OK"
       IN  procs' = [procs EXCEPT ![p] =
                        [@ EXCEPT !.pc = IF c = "OK" THEN "lookup" ELSE "done",
                                  !.result = IF c = "OK" THEN @ ELSE c,
                                  !.late = late]]
    /\ UNCHANGED <<clock, cfg, tasks, events, event, result, lastOp, hist, arg>>

\* util.py:106-113: the lookup of the task
p_lookup(p) ==
    /\ procs[p].pc = "lookup"
    /\ LET r == db_get_task_by_name(tasks, procs[p].name)
       IN  procs' = [procs EXCEPT ![p] =
                        [@ EXCEPT !.pc = IF r.ok THEN "insert" ELSE "done",
                                  !.result = IF r.ok THEN @ ELSE "NotFoundError",
                                  !.task_id = r.val.id]]
    /\ UNCHANGED <<clock, cfg, tasks, events, event, result, lastOp, hist, arg>>

\* util.py:114-115: the new Event and its insert
p_insert(p) ==
    /\ procs[p].pc = "insert"
    /\ LET e == Event([task_id |-> procs[p].task_id], clock)
           evs == db_insert_event(events, e)
       IN  /\ events' = evs
           /\ procs' = [procs EXCEPT ![p] =
                           [@ EXCEPT !.pc = "done",
                                     !.result = IF evs = events THEN "DuplicateId" ELSE "OK"]]
    /\ UNCHANGED <<clock, cfg, tasks, event, result, lastOp, hist, arg>>

RaceNext ==
    \/ Tick
    \/ \E p \in Procs : p_check(p)
    \/ \E p \in Procs : p_lookup(p)
    \/ \E p \in Procs : p_insert(p)

RaceSpec == RaceInit /\ [][RaceNext]_vars

----------------------------------------------------------------------------
(* Properties *)

Ledger(row) == unpack(row.laps)
LastRow == events[Len(events)]
OpenLaps(laps) == {i \in DOMAIN laps : laps[i][3] = 0}
NonStopped == {i \in DOMAIN events : events[i].status # "Stopped"}

RECURSIVE SplitSum(_)
SplitSum(laps) ==
    IF laps = <<>> THEN 0
    ELSE LET lap == laps[Len(laps)]
             rest == SplitSum(SubSeq(laps, 1, Len(laps) - 1))
         IN  IF lap[1] = "Split" /\ lap[3] > 0 THEN rest + lap[4] ELSE rest

\* the step is the command `op` (every command writes its name to lastOp and
\* leaves the clock alone)
IsCommand(op) == clock' = clock /\ lastOp' = op

\* C1: storage holds at most one event whose status is not Stopped.
C1_AtMostOneNonStopped == Cardinality(NonStopped) <= 1

C1_Witness ==
    /\ Len(events) = 2
    /\ events[1].status = "Stopped"
    /\ events[2].status \in {"Running", "Pausing"}

\* C2: in every ledger, stored or in memory, at most one lap is open (end = 0),
\* an open lap is the last one, and every closed lap has end >= start and
\* length = end - start.
LedgerWellFormed(laps) ==
    /\ Cardinality(OpenLaps(laps)) <= 1
    /\ \A i \in OpenLaps(laps) : i = Len(laps)
    /\ \A i \in DOMAIN laps \ OpenLaps(laps) :
          laps[i][3] >= laps[i][2] /\ laps[i][4] = laps[i][3] - laps[i][2]

C2_LedgerInvariant ==
    /\ \A i \in DOMAIN events : LedgerWellFormed(Ledger(events[i]))
    /\ LedgerWellFormed(event.laps)

C2_Witness ==
    /\ events # <<>>
    /\ Len(Ledger(LastRow)) >= 3
    /\ OpenLaps(Ledger(LastRow)) = {Len(Ledger(LastRow))}
    /\ \E i \in DOMAIN Ledger(LastRow) : Ledger(LastRow)[i][1] = "Pause" /\ Ledger(LastRow)[i][3] > 0

\* C3: after a split at time t the ledger, in memory and in storage, has exactly
\* one open lap, the Split lap <<"Split", t, 0, 0>> at its end, and every closed
\* Split lap in it is at least split_min minutes long.
AfterSplit(laps, t) ==
    /\ laps # <<>>
    /\ OpenLaps(laps) = {Len(laps)}
    /\ laps[Len(laps)] = <<"Split", t, 0, 0>>
    /\ \A i \in DOMAIN laps :
          laps[i][1] = "Split" /\ laps[i][3] # 0
              => laps[i][4] >= cfg.split_min * SecondsPerMinute

C3_SplitLedger ==
    /\ hist # <<>> /\ hist[Len(hist)][1] = "split"
          => events # <<>> /\ AfterSplit(Ledger(LastRow), hist[Len(hist)][2])
    /\ lastOp = "split" /\ result = "OK"
          => AfterSplit(event.laps, hist[Len(hist)][2])

\* two splits in a row, the first lap kept and the second one dropped
C3_Witness ==
    /\ Len(hist) = 3
    /\ hist[2][1] = "split" /\ hist[3][1] = "split"
    /\ hist[3][2] - hist[2][2] < cfg.split_min * SecondsPerMinute
    /\ Len(Ledger(LastRow)) = 2
    /\ lastOp = "split" /\ result = "OK"

\* C4: pause at t directly followed by resume at t + d: the ledger holds no
\* Pause lap for that pause when d < pause_min*60 or d > pause_max*60, and
\* otherwise the closed lap <<"Pause", t, t + d, d>>, which adds nothing to the
\* work; either way the event is Running with the open lap <<"Split", t + d, 0, 0>>
\* at the end of its ledger.
PauseResumed ==
    /\ Len(hist) >= 2
    /\ hist[Len(hist) - 1][1] = "pause"
    /\ hist[Len(hist)][1] = "resume"

C4_PauseResume ==
    PauseResumed =>
        LET t == hist[Len(hist) - 1][2]
            t2 == hist[Len(hist)][2]
            d == t2 - t
            laps == Ledger(LastRow)
            kept == {i \in DOMAIN laps : laps[i][1] = "Pause" /\ laps[i][2] = t}
        IN  /\ LastRow.status = "Running"
            /\ laps[Len(laps)] = <<"Split", t2, 0, 0>>
            /\ IF d < cfg.pause_min * SecondsPerMinute \/ d > cfg.pause_max * SecondsPerMinute
               THEN kept = {}
               ELSE /\ kept = {Len(laps) - 1}
                    /\ laps[Len(laps) - 1] = <<"Pause", t, t2, d>>
                    /\ total_work(laps) = SplitSum(SubSeq(laps, 1, Len(laps) - 2))

\* a pause of exactly pause_min minutes, which is kept
C4_Witness ==
    /\ PauseResumed
    /\ hist[Len(hist)][2] - hist[Len(hist) - 1][2] = cfg.pause_min * SecondsPerMinute
    /\ Len(Ledger(LastRow)) >= 2

\* C5: after stop, from Running or from Pausing, the work of the event is the
\* sum of the lengths of the closed Split laps of its final ledger, and
\* total_work() computed again on that ledger is the same number.
C5_WorkAtStop ==
    lastOp = "stop" /\ result = "OK" =>
        /\ event.status = "Stopped"
        /\ OpenLaps(event.laps) = {}
        /\ event.work = SplitSum(event.laps)
        /\ total_work(event.laps) = event.work

\* stopped while Pausing, with a Split lap and a Pause lap kept
C5_Witness ==
    /\ lastOp = "stop" /\ result = "OK"
    /\ Len(hist) = 3 /\ hist[2][1] = "pause"
    /\ event.work > 0
    /\ \E i \in DOMAIN event.laps : event.laps[i][1] = "Pause"

\* C6: after stop the event is gone from storage exactly when its work is at
\* most split_min minutes (work <= split_min * 60 seconds); otherwise it is
\* stored with status Stopped.
Stored(id) == \E i \in DOMAIN events : events[i].id = id

C6_DeletedIffShort ==
    lastOp = "stop" /\ result = "OK" =>
        IF event.work <= cfg.split_min * SecondsPerMinute
        THEN ~Stored(event.id)
        ELSE \E i \in DOMAIN events :
                events[i].id = event.id /\ events[i].status = "Stopped"

\* C7 as stated: start at 0, pause at 120 s, resume at 150 s, stop at 400 s
\* under the default configuration leaves one closed Split lap of 400 s,
\* work = 400 and the event in storage.
Scenario7 ==
    /\ cfg = default_cfg
    /\ hist = << <<"start", Epoch>>, <<"pause", Epoch + 120>>,
                 <<"resume", Epoch + 150>>, <<"stop", Epoch + 400>> >>
    /\ lastOp = "stop"

StatusMoves ==
    { <<"Running", "Pausing">>, <<"Pausing", "Running">>,
      <<"Running", "Stopped">>, <<"Pausing", "Stopped">> }

C8_Step ==
    \A i \in DOMAIN events :
        /\ events[i].status = "Stopped"
              => \E j \in DOMAIN events' : events'[j] = events[i]
        /\ \A j \in DOMAIN events' :
              events'[j].id = events[i].id /\ events'[j].status # events[i].status
                  => <<events[i].status, events'[j].status>> \in StatusMoves

C8_StoppedIsTerminal == [][C8_Step]_vars

\* a stop command refused on a stored Stopped event
C8_Witness ==
    /\ events # <<>>
    /\ LastRow.status = "Stopped"
    /\ lastOp = "stop" /\ result = "InvalidStateError"

\* C9: split or pause on a Pausing or Stopped event, resume on a Running or
\* Stopped one and stop on a Stopped one end in InvalidStateError and leave the
\* stored events as they were; the Event in memory, if one was loaded, has the
\* stored status and ledger.
InvalidFor(op) ==
    CASE op = "split"  -> {"Pausing", "Stopped"}
      [] op = "pause"  -> {"Pausing", "Stopped"}
      [] op = "resume" -> {"Running", "Stopped"}
      [] op = "stop"   -> {"Stopped"}

C9_Step ==
    \A op \in {"split", "pause", "resume", "stop"} :
        IsCommand(op) /\ events # <<>> /\ LastRow.status \in InvalidFor(op)
            => /\ result' = "InvalidStateError"
               /\ events' = events
               /\ \/ event' = NoEvent
                  \/ /\ event'.status = LastRow.status
                     /\ event'.laps = Ledger(LastRow)

C10_Step ==
    IsCommand("start") /\ NonStopped # {}
        => result' = "ConflictError" /\ events' = events /\ event' = NoEvent

C10_StartConflict == [][C10_Step]_vars

C10_Witness ==
    /\ events # <<>>
    /\ LastRow.status = "Pausing"
    /\ lastOp = "start" /\ result = "ConflictError"

\* C11: start for a name that no registered task has, while no stored event is
\* Running or Pausing, ends in NotFoundError, creates no Event and leaves the
\* stored events as they were.
Registered(name) == \E i \in DOMAIN tasks : tasks[i].name = name

C11_Step ==
    IsCommand("start") /\ NonStopped = {} /\ ~Registered(arg')
        => result' = "NotFoundError" /\ events' = events /\ event' = NoEvent

C11_StartUnknownTask == [][C11_Step]_vars

\* an unknown name while the registry has a task and storage a Stopped event
C11_Witness ==
    /\ lastOp = "start" /\ result = "NotFoundError"
    /\ tasks # <<>> /\ ~Registered(arg)
    /\ events # <<>> /\ NonStopped = {}

\* C12: after a successful start the event table ends with the new event:
\* status Running, work 0, task_id the id of the task named on the command
\* line, and the ledger <<"Split", t, 0, 0>> with t the time of the start; the
\* Event in memory is the same.
C12_StartCreates ==
    lastOp = "start" /\ result = "OK" =>
        /\ events # <<>>
        /\ LastRow.status = "Running"
        /\ LastRow.work = 0
        /\ Ledger(LastRow) = << <<"Split", hist[1][2], 0, 0>> >>
        /\ \E i \in DOMAIN tasks : tasks[i].name = arg /\ tasks[i].id = LastRow.task_id
        /\ event.status = "Running" /\ event.work = 0
        /\ event.laps = Ledger(LastRow)
        /\ event.task_id = LastRow.task_id /\ event.id = LastRow.id

\* a second event started after a first one was stopped and kept
C12_Witness ==
    /\ lastOp = "start" /\ result = "OK"
    /\ Len(events) = 2
    /\ hist[1][2] > Epoch

\* C13: tt add NAME creates a task exactly when NAME matches [-_0-9a-zA-Z]+;
\* for every other name, the empty one included, it ends in InvalidNameError
\* and no task of that name is stored.
PatternChars ==
    {"-", "_"} \cup {"0", "1", "2", "3", "4", "5", "6", "7", "8", "9"}
    \cup {"a", "b", "c", "d", "e", "f", "g", "h", "i", "j", "k", "l", "m",
          "n", "o", "p", "q", "r", "s", "t", "u", "v", "w", "x", "y", "z"}
    \cup {"A", "B", "C", "D", "E", "F", "G", "H", "I", "J", "K", "L", "M",
          "N", "O", "P", "Q", "R", "S", "T", "U", "V", "W", "X", "Y", "Z"}

MatchesPattern(name) ==
    Len(name) >= 1 /\ \A i \in 1..Len(name) : name[i] \in PatternChars

C13_NameRule ==
    lastOp = "add" =>
        /\ result # "InvalidNameError" <=> MatchesPattern(arg)
        /\ ~MatchesPattern(arg) => ~Registered(arg)

\* C14: Event(e.to_dict()) has the laps of e, as many, in the same order and
\* with the same (kind, start, end, length), and the id, task_id and status
\* of e, for every Event e a command leaves in memory.
RoundTrip(e) ==
    LET d == to_dict(e)
        b == Event(d, clock)
    IN  /\ Len(b.laps) = Len(e.laps)
        /\ \A i \in DOMAIN e.laps : b.laps[i] = e.laps[i]
        /\ b.id = e.id
        /\ b.task_id = e.task_id
        /\ b.status = e.status

C14_RoundTrip == event.status # "None" => RoundTrip(event)

\* a Stopped event whose ledger ended empty, every lap dropped
C14_Witness ==
    /\ event.status = "Stopped"
    /\ event.laps = <<>>
    /\ Len(hist) = 4

\* C15 as stated: after both concurrent start commands have finished, storage
\* holds at most one event that is not Stopped, whatever the interleaving.
AllDone == \A p \in Procs : procs[p].pc = "done"

RECURSIVE RunningTime(_)
RunningTime(h) ==
    IF Len(h) < 2 THEN 0
    ELSE LET n == Len(h)
             rest == RunningTime(SubSeq(h, 1, n - 1))
         IN  IF h[n - 1][1] \in {"start", "split", "resume"}
             THEN rest + (h[n][2] - h[n - 1][2])
             ELSE rest

C16_WorkWithinRunning ==
    lastOp = "stop" /\ result = "OK" => event.work <= RunningTime(hist)

\* start, pause, resume, stop with the Pause lap retained and work left
C16_Witness ==
    /\ lastOp = "stop" /\ result = "OK"
    /\ Len(hist) = 4 /\ hist[2][1] = "pause" /\ hist[3][1] = "resume"
    /\ event.work > 0
    /\ \E i \in DOMAIN event.laps :
          event.laps[i][1] = "Pause" /\ event.laps[i][4] > 0

\* C17 as stated: an event that was never paused and is stopped T seconds
\* after its start, T >= split_min*60, has work = T however it was split.
NeverPaused == \A i \in DOMAIN hist : hist[i][1] \in {"start", "split", "stop"}
Elapsed == hist[Len(hist)][2] - hist[1][2]

RECURSIVE KeptTime(_)
KeptTime(h) ==
    IF Len(h) < 2 THEN 0
    ELSE LET n == Len(h)
             span == h[n][2] - h[n - 1][2]
             rest == KeptTime(SubSeq(h, 1, n - 1))
         IN  IF span >= cfg.split_min * SecondsPerMinute THEN rest + span ELSE rest

StatusAgrees(status, laps) ==
    CASE status = "Running" ->
            laps # <<>> /\ laps[Len(laps)][1] = "Split" /\ laps[Len(laps)][3] = 0
      [] status = "Pausing" ->
            laps # <<>> /\ laps[Len(laps)][1] = "Pause" /\ laps[Len(laps)][3] = 0
      [] status = "Stopped" -> OpenLaps(laps) = {}
      [] OTHER -> FALSE

C18_StatusLedger ==
    /\ \A i \in DOMAIN events : StatusAgrees(events[i].status, Ledger(events[i]))
    /\ event.status # "None" => StatusAgrees(event.status, event.laps)

\* a Pausing event behind a Stopped one, a Split lap kept before the pause
C18_Witness ==
    /\ Len(events) = 2
    /\ events[1].status = "Stopped" /\ events[2].status = "Pausing"
    /\ Len(Ledger(events[2])) = 2
    /\ event.status = "Pausing"

\* C19: for an event that is stopped and kept, the stored record, and the
\* Event read back from it, carry the work computed at stop.
C19_StoredWork ==
    lastOp = "stop" /\ result = "OK" =>
        \A i \in DOMAIN events :
            events[i].id = event.id
                => /\ events[i].work = event.work
                   /\ Event(events[i], clock).work = event.work

====
